---------------------------- MODULE Spec2Model ----------------------------
(***************************************************************************)
(* Model of run_automation.py: the Pipeline Driver main() and the Process  *)
(* Runner run_script().  A run is one execution of main() over a file      *)
(* system; the two collaborator scripts are opaque child processes whose   *)
(* exit status and file-system effect are chosen nondeterministically.     *)
(*                                                                         *)
(* Text (file names, modes, flags) is a sequence of one-character strings. *)
(***************************************************************************)
EXTENDS Integers, Sequences, FiniteSets

\* ------------------------------------------------------------------ bounds
\* Longest input file name drawn for a run of the Driver.
MaxLen == 4
\* Longest input file name drawn where a run is followed by a second one.
MaxLenTwoRuns == 3

\* ------------------------------------------------------------- characters
Letters == {"J"}
Digits == {"2"}
Dot == "."
Chars == Letters \cup Digits \cup {Dot}

\* str.isalpha on one character
IsAlpha(c) == c \in Letters

Lower == <<"a","b","c","d","e","f","g","h","i","j","k","l","m",
           "n","o","p","q","r","s","t","u","v","w","x","y","z">>
Upper == <<"A","B","C","D","E","F","G","H","I","J","K","L","M",
           "N","O","P","Q","R","S","T","U","V","W","X","Y","Z">>

\* str.upper on one character: a lower-case letter maps to its capital,
\* anything else is unchanged.
UpperChar(c) ==
    IF \E i \in DOMAIN Lower : Lower[i] = c
    THEN Upper[CHOOSE i \in DOMAIN Lower : Lower[i] = c]
    ELSE c

\* mode.upper()
ToUpper(s) == [i \in DOMAIN s |-> UpperChar(s[i])]

BoundedSeq(S, n) == UNION {[1..k -> S] : k \in 1..n}

\* A file name is a non-empty path component other than "." and "..".
FileNames(n) == BoundedSeq(Chars, n) \ {<<Dot>>, <<Dot, Dot>>}

\* ------------------------------------------------------- name derivation
\* str.rfind('.') as a 1-based position, 0 when there is no dot.
RFindDot(name) ==
    IF \E i \in DOMAIN name : name[i] = Dot
    THEN CHOOSE i \in DOMAIN name :
            name[i] = Dot /\ \A j \in DOMAIN name : name[j] = Dot => j <= i
    ELSE 0

\* Path.stem: the name without its last suffix; a dot that leads or ends
\* the name starts no suffix.
Stem(name) ==
    LET p == RFindDot(name)
    IN  IF 1 < p /\ p < Len(name) THEN SubSeq(name, 1, p - 1) ELSE name

\* An identifier that keeps the suffix of the file name.
IdentifierWholeName(name) == name

\* identifier = input_excel_path.stem
Identifier(name) == Stem(name)

\* ''.join(filter(str.isalpha, identifier))
Prefix(identifier) == SelectSeq(identifier, IsAlpha)

ConfigSuffix == <<"_","c","o","n","f","i","g",".","j","s","o","n">>
JsonSuffix == <<".","j","s","o","n">>
OutputTag == <<"C","T","&","I","N","V","&","P","L">>
XlsxSuffix == <<".","x","l","s","x">>
Space == <<" ">>

\* f"{prefix}_config.json"
ConfigFileName(prefix) == prefix \o ConfigSuffix

\* f"{identifier}.json"
JsonFileName(identifier) == identifier \o JsonSuffix

\* f"CT&INV&PL {identifier} {mode.upper()}.xlsx"
OutputFileName(identifier, mode) ==
    OutputTag \o Space \o identifier \o Space \o ToUpper(mode) \o XlsxSuffix

\* ------------------------------------------------------------------ modes
Normal == <<"n","o","r","m","a","l">>
Fob == <<"f","o","b">>
Custom == <<"c","u","s","t","o","m">>

\* modes = [("normal", []), ("fob", ["--fob"]), ("custom", ["--custom"])]
Modes == << [mode |-> Normal, flags |-> <<>>],
            [mode |-> Fob, flags |-> <<"--fob">>],
            [mode |-> Custom, flags |-> <<"--custom">>] >>

\* ------------------------------------------------------------ file system
Kinds == {"none", "file", "dir"}

\* Path.mkdir without exist_ok: anything that exists raises.
MkdirRaisesIfExists(kind) == kind # "none"

\* Path.mkdir(parents=True, exist_ok=True): an existing directory is kept,
\* a missing one is created, an existing non-directory raises
\* FileExistsError.
MkdirRaises(kind) == kind = "file"

\* The configuration files a configuration directory may hold.
ConfigFiles == {ConfigFileName(<<"J">>), ConfigFileName(<<"J", "J">>)}

\* The file-system states a run can start from.  out, json_dir and inv_dir
\* are <stem>/, <stem>/json_output and <stem>/invoice_output; json_file is
\* <stem>/json_output/<stem>.json.  Entries exist only inside directories,
\* and when the input name has no suffix <stem>/ is the input path itself.
FileSystems(name) ==
    { f \in [ input : BOOLEAN,
              out : Kinds, json_dir : Kinds, inv_dir : Kinds,
              json_file : BOOLEAN,
              create_json_script : BOOLEAN,
              invoice_gen_script : BOOLEAN,
              template_dir : BOOLEAN,
              config_dir : BOOLEAN,
              configs : SUBSET ConfigFiles ] :
        /\ f.out # "dir" => f.json_dir = "none" /\ f.inv_dir = "none"
        /\ f.json_file => f.json_dir = "dir"
        /\ f.configs # {} => f.config_dir
        /\ Stem(name) = name => (f.input <=> f.out = "file") }

\* ------------------------------------------------------------------ state
VARIABLES
    args,        \* parsed command line: [input, fob, custom]
    fs,          \* the file system
    pc,          \* position of main()
    identifier,  \* main's local identifier, <<>> until assigned
    prefix,      \* main's local prefix, <<>> until assigned
    modeIdx,     \* index into Modes of the generation loop
    child,       \* the running child process: "none" or a script name
    passed,      \* the checks main() has made and passed so far
    created,     \* the directories the mkdir calls of main() have created
    extractResults, \* what run_script returned for the extraction call
    configLookups, \* the config file names main() has looked up
    extractCalls,  \* the run_script calls made for create_json/main.py
    genCalls,    \* the run_script calls made for generate_invoice.py
    genResults,  \* what run_script returned for each of them
    spawned,     \* the scripts for which a process was started, in order
    banner,      \* the three file names of the completion banner, once logged
    exitCode,    \* the exit status of the run, -1 while it is running
    reason,      \* the last error logged by main(), "" if none
    run,         \* the number of the run of main() in progress
    first,       \* <<>>, or what the first run was and did, once it has ended
    fs0,         \* the file system the first run started from
    oracle,      \* what the collaborator scripts have done, per invocation
    runner       \* a call of run_script made on its own: inputs and progress

vars == <<args, fs, pc, identifier, prefix, modeIdx, child, passed,
          created, extractResults, configLookups, extractCalls, genCalls, genResults, spawned,
          banner, exitCode, reason, run, first, fs0, oracle, runner>>

\* A child process that never ends.
NoExitStatus == {}

\* Exit statuses a child process may end with.
ExitStatuses == {0, 1}

\* What subprocess.run does when asked to start the child: the process
\* starts, or starting it raises FileNotFoundError or another exception.
Launches == {"started", "FileNotFoundError", "Exception"}

\* ------------------------------------------------------------ run_script
\* run_script without the check of the working directory.
PreCheckScriptOnly(scriptIsFile, cwdGiven, cwdIsDir) ==
    IF ~scriptIsFile THEN "script_not_found" ELSE "ok"

\* The checks run_script makes before it starts a process.
PreCheck(scriptIsFile, cwdGiven, cwdIsDir) ==
    IF ~scriptIsFile THEN "script_not_found"
    ELSE IF cwdGiven /\ ~cwdIsDir THEN "cwd_not_found"
    ELSE "ok"

\* Whether run_script starts a process.
Starts(pre, launch) == pre = "ok" /\ launch = "started"

\* A run_script that takes every ended child for a success.
ReturnedWhateverStatus(rc) == TRUE

\* run_script's return value once the child has ended with status rc
\* (check=True raises CalledProcessError on a non-zero status).
Returned(rc) == rc = 0

\* A project directory is a directory when the script in it is a file:
\* run_script reads the directory only after it has found the script.
CreateJsonDirIsDir(f) == f.create_json_script
InvoiceGenDirIsDir(f) == f.invoice_gen_script

\* ----------------------------------------------------------- collaborators
\* A collaborator script is an opaque program: given the same invocation and
\* the same file system it does the same again.  Whether launching it for
\* `call` may go as `launch`, given what it did before.
LaunchTold(call, launch) ==
    \A e \in oracle.launch : e.call = call => e.launch = launch

\* Whether the child of `call` may end with status rc, having written its
\* output (wrote) or not, given what it did before.
ExitTold(call, rc, wrote) ==
    \A e \in oracle.exit : e.call = call => (e.rc = rc /\ e.wrote = wrote)

\* The oracle once the launch for `call` went as `launch`.
WithLaunch(call, launch) ==
    [oracle EXCEPT !.launch = @ \cup {[call |-> call, launch |-> launch]}]

\* The oracle once the child of `call` ended with rc and wrote.
WithExit(call, rc, wrote) ==
    [oracle EXCEPT !.exit = @ \cup {[call |-> call, rc |-> rc, wrote |-> wrote]}]

\* ------------------------------------------------------------------- main
\* What the collaborators have done so far: how the launch of an
\* invocation went, and how the child ended.
NoOracle == [launch |-> {}, exit |-> {}]

\* No call of run_script on its own.
NoRunner == [pc |-> "idle"]

\* The locals and the records of a run of main() that is about to start.
StartOfRun ==
    /\ pc = "check_input"
    /\ identifier = <<>>
    /\ prefix = <<>>
    /\ modeIdx = 1
    /\ child = "none"
    /\ passed = {}
    /\ created = {}
    /\ extractResults = <<>>
    /\ configLookups = <<>>
    /\ extractCalls = <<>>
    /\ genCalls = <<>>
    /\ genResults = <<>>
    /\ spawned = <<>>
    /\ banner = <<>>
    /\ exitCode = -1
    /\ reason = ""

\* A first run of main() on an input file name out of `names`.
InitOn(names) ==
    /\ args \in [input : names, fob : BOOLEAN, custom : BOOLEAN]
    /\ fs \in FileSystems(args.input)
    /\ fs0 = fs
    /\ run = 1
    /\ first = <<>>
    /\ oracle = NoOracle
    /\ runner = NoRunner
    /\ StartOfRun

Init == InitOn(FileNames(MaxLen))

\* sys.exit(1) after logging the error `why`; an uncaught exception ends
\* the interpreter with the same status.
Abort(why) ==
    /\ pc' = "exit"
    /\ exitCode' = 1
    /\ reason' = why

\* Lines 97-100: the input must be a file.
CheckInput ==
    /\ pc = "check_input"
    /\ IF fs.input
       THEN /\ pc' = "make_dirs"
            /\ passed' = passed \cup {"input"}
            /\ UNCHANGED <<exitCode, reason>>
       ELSE /\ Abort("input_not_found")
            /\ UNCHANGED passed
    /\ UNCHANGED <<run, first, fs0, oracle, runner,
                   created, extractResults,
                   args, fs, identifier, prefix, modeIdx, child,
                   configLookups, extractCalls, genCalls, genResults, spawned, banner>>

\* The file system after the three mkdir calls of lines 103-112, each made
\* only if the one before it did not raise.
AfterMkdirs(f) ==
    IF MkdirRaises(f.out) THEN f
    ELSE LET f1 == [f EXCEPT !.out = "dir"]
         IN  IF MkdirRaises(f1.json_dir) THEN f1
             ELSE LET f2 == [f1 EXCEPT !.json_dir = "dir"]
                  IN  IF MkdirRaises(f2.inv_dir) THEN f2
                      ELSE [f2 EXCEPT !.inv_dir = "dir"]

\* Whether one of the three mkdir calls raises FileExistsError.
MkdirsRaise(f) ==
    \/ MkdirRaises(f.out)
    \/ MkdirRaises(f.json_dir)
    \/ MkdirRaises(f.inv_dir)

\* Lines 102-112: create <stem>/, <stem>/json_output, <stem>/invoice_output.
MakeDirs ==
    /\ pc = "make_dirs"
    /\ fs' = AfterMkdirs(fs)
    /\ created' = {d \in {"out", "json_dir", "inv_dir"} : fs[d] = "none" /\ fs'[d] = "dir"}
    /\ IF MkdirsRaise(fs)
       THEN Abort("FileExistsError")
       ELSE /\ pc' = "derive"
            /\ UNCHANGED <<exitCode, reason>>
    /\ UNCHANGED <<run, first, fs0, oracle, runner,
                   extractResults,
                   args, identifier, prefix, modeIdx, child, passed,
                   configLookups, extractCalls, genCalls, genResults, spawned, banner>>

\* Lines 123-130: derive the identifier and the prefix.
DerivePrefix ==
    /\ pc = "derive"
    /\ identifier' = Identifier(args.input)
    /\ prefix' = Prefix(identifier')
    /\ IF prefix' # <<>>
       THEN /\ pc' = "validate"
            /\ passed' = passed \cup {"prefix"}
            /\ UNCHANGED <<exitCode, reason>>
       ELSE /\ Abort("no_prefix")
            /\ UNCHANGED passed
    /\ UNCHANGED <<run, first, fs0, oracle, runner,
                   created, extractResults,
                   args, fs, modeIdx, child, configLookups, extractCalls,
                   genCalls, genResults, spawned, banner>>

\* A validation that leaves out the template directory.
FirstMissingAssetNoTemplate(f) ==
    IF ~f.create_json_script THEN "create_json_script"
    ELSE IF ~f.invoice_gen_script THEN "invoice_gen_script"
    ELSE IF ~f.config_dir THEN "config_dir"
    ELSE "none"

\* A validation that also looks for <prefix>_config.json, before anything
\* is run.
FirstMissingAssetOrConfig(f) ==
    IF ~f.create_json_script THEN "create_json_script"
    ELSE IF ~f.invoice_gen_script THEN "invoice_gen_script"
    ELSE IF ~f.template_dir THEN "template_dir"
    ELSE IF ~f.config_dir THEN "config_dir"
    ELSE IF ConfigFileName(prefix) \notin f.configs THEN "config_not_found"
    ELSE "none"

\* Lines 133-145: the first fixed asset found missing, in the order the
\* code checks them, or "none".
FirstMissingAsset(f) ==
    IF ~f.create_json_script THEN "create_json_script"
    ELSE IF ~f.invoice_gen_script THEN "invoice_gen_script"
    ELSE IF ~f.template_dir THEN "template_dir"
    ELSE IF ~f.config_dir THEN "config_dir"
    ELSE "none"

Assets == {"create_json_script", "invoice_gen_script", "template_dir",
           "config_dir"}

\* Lines 132-145: validate the four fixed assets.
ValidateAssets ==
    /\ pc = "validate"
    /\ LET missing == FirstMissingAsset(fs)
       IN  IF missing = "none"
           THEN /\ pc' = "extract"
                /\ passed' = passed \cup Assets
                /\ UNCHANGED <<exitCode, reason>>
           ELSE /\ Abort(missing)
                /\ UNCHANGED passed
    /\ UNCHANGED <<run, first, fs0, oracle, runner,
                   created, extractResults,
                   args, fs, identifier, prefix, modeIdx, child,
                   configLookups, extractCalls, genCalls, genResults, spawned, banner>>

\* output_dir / "json_output" and output_dir / "invoice_output", with
\* output_dir = input_excel_path.parent / input_excel_path.stem
JsonOutputDir == [root |-> Stem(args.input), dir |-> "json_output"]
InvoiceOutputDir == [root |-> Stem(args.input), dir |-> "invoice_output"]

\* An extraction call that passes the command line's --fob and --custom on.
CreateJsonCallWithFlags ==
    [ script |-> "create_json/main.py",
      input_excel |-> args.input,
      output_dir |-> JsonOutputDir,
      flags |-> (IF args.fob THEN <<"--fob">> ELSE <<>>)
                \o (IF args.custom THEN <<"--custom">> ELSE <<>>),
      cwd |-> "create_json" ]

\* Lines 148-151: the arguments of the extraction call.
CreateJsonCall ==
    [ script |-> "create_json/main.py",
      input_excel |-> args.input,
      output_dir |-> JsonOutputDir,
      cwd |-> "create_json" ]

\* An extraction failure that is only logged.
ExtractionNeverFatal(ok) == FALSE

\* Lines 153-155: a failed extraction call is fatal.
ExtractionFatal(ok) == ~ok

\* main() after run_script has returned `ok` for the extraction script.
ExtractionReturned(ok) ==
    /\ extractResults' = Append(extractResults, ok)
    /\ IF ExtractionFatal(ok)
       THEN Abort("extraction_failed")
       ELSE /\ pc' = "verify_json"
            /\ UNCHANGED <<exitCode, reason>>

\* Line 153 with run_script lines 15-40: the call, up to the start of the
\* child process or the failure to start one.
CallExtraction ==
    /\ pc = "extract"
    /\ extractCalls' = Append(extractCalls, CreateJsonCall)
    /\ \E launch \in Launches :
         LET pre == PreCheck(fs.create_json_script, TRUE, CreateJsonDirIsDir(fs))
         IN  /\ pre = "ok" => LaunchTold(CreateJsonCall, launch)
             /\ oracle' = IF pre = "ok"
                          THEN WithLaunch(CreateJsonCall, launch)
                          ELSE oracle
             /\ IF Starts(pre, launch)
                THEN /\ child' = "create_json"
                     /\ spawned' = Append(spawned, "create_json")
                     /\ pc' = "extract_wait"
                     /\ UNCHANGED <<extractResults, exitCode, reason>>
                ELSE /\ ExtractionReturned(FALSE)
                     /\ UNCHANGED <<child, spawned>>
    /\ UNCHANGED <<run, first, fs0, runner,
                   created,
                   args, fs, identifier, prefix, modeIdx, passed,
                   configLookups, genCalls, genResults, banner>>

\* The extraction child ends with status rc, having written
\* json_output/<identifier>.json or not; run_script returns (lines 42-63)
\* and main() acts on the result (lines 153-155).
ExtractionExits ==
    /\ pc = "extract_wait"
    /\ child = "create_json"
    /\ \E rc \in ExitStatuses, wrote \in BOOLEAN :
         /\ ExitTold(CreateJsonCall, rc, wrote)
         /\ oracle' = WithExit(CreateJsonCall, rc, wrote)
         /\ fs' = [fs EXCEPT !.json_file = fs.json_file \/ wrote]
         /\ ExtractionReturned(Returned(rc))
    /\ child' = "none"
    /\ UNCHANGED <<run, first, fs0, runner,
                   created,
                   args, identifier, prefix, modeIdx, passed, configLookups,
                   extractCalls, genCalls, genResults, spawned, banner>>

\* A driver that trusts the return code of the extraction step.
JsonMissingIgnored(present) == FALSE

\* Lines 159-162: a missing json_output/<identifier>.json is fatal.
JsonMissingFatal(present) == ~present

\* Lines 157-163: verify the extraction output.
VerifyJson ==
    /\ pc = "verify_json"
    /\ IF JsonMissingFatal(fs.json_file)
       THEN /\ Abort("json_not_found")
            /\ UNCHANGED passed
       ELSE /\ pc' = "check_config"
            /\ passed' = passed \cup {"json"}
            /\ UNCHANGED <<exitCode, reason>>
    /\ UNCHANGED <<run, first, fs0, oracle, runner,
                   created, extractResults,
                   args, fs, identifier, prefix, modeIdx, child,
                   configLookups, extractCalls, genCalls, genResults, spawned, banner>>

\* A missing configuration file left to the generation script to report.
ConfigMissingIgnored(present) == FALSE

\* Lines 168-171: a missing <prefix>_config.json is fatal.
ConfigMissingFatal(present) == ~present

\* Lines 165-171: look up config_dir / f"{prefix}_config.json".
CheckConfig ==
    /\ pc = "check_config"
    /\ LET expected == ConfigFileName(prefix)
       IN  /\ configLookups' = Append(configLookups, expected)
           /\ IF ConfigMissingFatal(expected \in fs.configs)
              THEN /\ Abort("config_not_found")
                   /\ UNCHANGED passed
              ELSE /\ pc' = "generate"
                   /\ passed' = passed \cup {"config"}
                   /\ UNCHANGED <<exitCode, reason>>
    /\ UNCHANGED <<run, first, fs0, oracle, runner,
                   created, extractResults,
                   args, fs, identifier, prefix, modeIdx, child,
                   extractCalls, genCalls, genResults, spawned, banner>>

\* A generation call that passes the command line's --fob and --custom on,
\* as their help text says, instead of the flag of the mode.
InvoiceGenCallCliFlags(i) ==
    [ script |-> "invoice_gen/generate_invoice.py",
      json |-> [dir |-> JsonOutputDir, name |-> JsonFileName(identifier)],
      output |-> [dir |-> InvoiceOutputDir,
                  name |-> OutputFileName(identifier, Modes[i].mode)],
      templatedir |-> "invoice_gen/TEMPLATE",
      configdir |-> "invoice_gen/config",
      flags |-> (IF args.fob THEN <<"--fob">> ELSE <<>>)
                \o (IF args.custom THEN <<"--custom">> ELSE <<>>),
      cwd |-> "invoice_gen" ]

\* Lines 184-190: the arguments of the generation call for Modes[i].
InvoiceGenCall(i) ==
    [ script |-> "invoice_gen/generate_invoice.py",
      json |-> [dir |-> JsonOutputDir, name |-> JsonFileName(identifier)],
      output |-> [dir |-> InvoiceOutputDir,
                  name |-> OutputFileName(identifier, Modes[i].mode)],
      templatedir |-> "invoice_gen/TEMPLATE",
      configdir |-> "invoice_gen/config",
      flags |-> Modes[i].flags,
      cwd |-> "invoice_gen" ]

\* A generation failure that aborts the run.
GenerationFatalOnFailure(ok) == ~ok

\* Lines 193-195: a failed generation call is logged and the loop goes on.
GenerationFatal(ok) == FALSE

\* A loop that calls generation again for a mode whose call has failed.
GenerationRetried(ok) ==
    /\ genResults' = Append(genResults, ok)
    /\ IF ok /\ modeIdx < Len(Modes)
       THEN /\ modeIdx' = modeIdx + 1
            /\ pc' = "generate"
       ELSE IF ok
       THEN /\ pc' = "banner"
            /\ UNCHANGED modeIdx
       ELSE /\ pc' = "generate"
            /\ UNCHANGED modeIdx
    /\ UNCHANGED <<exitCode, reason>>

\* main() after run_script has returned `ok` for mode modeIdx: the next
\* iteration of the loop of line 180, or the statements after it.
GenerationReturned(ok) ==
    /\ genResults' = Append(genResults, ok)
    /\ IF GenerationFatal(ok)
       THEN /\ Abort("generation_failed")
            /\ UNCHANGED modeIdx
       ELSE /\ IF modeIdx < Len(Modes)
               THEN /\ modeIdx' = modeIdx + 1
                    /\ pc' = "generate"
               ELSE /\ pc' = "banner"
                    /\ UNCHANGED modeIdx
            /\ UNCHANGED <<exitCode, reason>>

\* Line 193 with run_script lines 15-40, for mode modeIdx.
CallGeneration ==
    /\ pc = "generate"
    /\ genCalls' = Append(genCalls, InvoiceGenCall(modeIdx))
    /\ \E launch \in Launches :
         LET pre == PreCheck(fs.invoice_gen_script, TRUE, InvoiceGenDirIsDir(fs))
         IN  /\ pre = "ok" => LaunchTold(InvoiceGenCall(modeIdx), launch)
             /\ oracle' = IF pre = "ok"
                          THEN WithLaunch(InvoiceGenCall(modeIdx), launch)
                          ELSE oracle
             /\ IF Starts(pre, launch)
                THEN /\ child' = "invoice_gen"
                     /\ spawned' = Append(spawned, "invoice_gen")
                     /\ pc' = "generate_wait"
                     /\ UNCHANGED <<modeIdx, genResults, exitCode, reason>>
                ELSE /\ GenerationReturned(FALSE)
                     /\ UNCHANGED <<child, spawned>>
    /\ UNCHANGED <<run, first, fs0, runner,
                   created, extractResults,
                   args, fs, identifier, prefix, passed, configLookups,
                   extractCalls, banner>>

\* The generation child ends with status rc; run_script returns and the
\* loop goes on (lines 193-195).
GenerationExits ==
    /\ pc = "generate_wait"
    /\ child = "invoice_gen"
    /\ \E rc \in ExitStatuses :
         /\ ExitTold(genCalls[Len(genCalls)], rc, FALSE)
         /\ oracle' = WithExit(genCalls[Len(genCalls)], rc, FALSE)
         /\ GenerationReturned(Returned(rc))
    /\ child' = "none"
    /\ UNCHANGED <<run, first, fs0, runner,
                   created, extractResults,
                   args, fs, identifier, prefix, passed, configLookups,
                   extractCalls, genCalls, spawned, banner>>

NormalUpper == <<"N","O","R","M","A","L">>
FobUpper == <<"F","O","B">>
CustomUpper == <<"C","U","S","T","O","M">>

\* Lines 200-202: the three file names the banner lists.
BannerNames(id) ==
    << OutputTag \o Space \o id \o Space \o NormalUpper \o XlsxSuffix,
       OutputTag \o Space \o id \o Space \o FobUpper \o XlsxSuffix,
       OutputTag \o Space \o id \o Space \o CustomUpper \o XlsxSuffix >>

\* A banner logged only when every generation call succeeded.
BannerOnlyIfAllOk(results) == \A i \in DOMAIN results : results[i]

\* Lines 197-202 follow the loop unconditionally: the banner is logged
\* whatever the generation calls returned.
BannerLogged(results) == TRUE

\* Lines 197-202: the completion banner; main() returns, exit status 0.
LogBanner ==
    /\ pc = "banner"
    /\ banner' = IF BannerLogged(genResults) THEN BannerNames(identifier)
                 ELSE banner
    /\ pc' = "exit"
    /\ exitCode' = 0
    /\ UNCHANGED <<run, first, fs0, oracle, runner,
                   created, extractResults,
                   args, fs, identifier, prefix, modeIdx, child, passed,
                   configLookups, extractCalls, genCalls, genResults,
                   spawned, reason>>

Next ==
    \/ CheckInput
    \/ MakeDirs
    \/ DerivePrefix
    \/ ValidateAssets
    \/ CallExtraction
    \/ ExtractionExits
    \/ VerifyJson
    \/ CheckConfig
    \/ CallGeneration
    \/ GenerationExits
    \/ LogBanner

Spec == Init /\ [][Next]_vars

\* A step of main() itself, and a step that is the end of a child.
DriverStep ==
    \/ CheckInput
    \/ MakeDirs
    \/ DerivePrefix
    \/ ValidateAssets
    \/ CallExtraction
    \/ VerifyJson
    \/ CheckConfig
    \/ CallGeneration
    \/ LogBanner

ChildExit ==
    \/ ExtractionExits
    \/ GenerationExits

\* main() runs as one sequential process, so a statement that can be
\* executed is executed; and every child that was started ends.
Fairness ==
    /\ WF_vars(DriverStep)
    /\ WF_vars(ChildExit)

SpecFair == InitOn(FileNames(MaxLenTwoRuns)) /\ [][Next]_vars /\ Fairness

\* --------------------------------------------------- run_script by itself
\* run_script called on any script path and working directory, outside
\* main().  runner.ret is "none" until run_script has returned.
RunnerInputs ==
    [ pc : {"called"},
      scriptIsFile : BOOLEAN,
      cwdGiven : BOOLEAN,
      cwdKind : Kinds,
      named : BOOLEAN,
      pre : {""},
      launch : {""},
      child : {FALSE},
      spawns : {0},
      rc : {-1},
      stdout : {FALSE},
      stderr : {FALSE},
      raised : {""},
      ret : {"none"},
      log : {<<>>} ]

InitRunner ==
    /\ runner \in RunnerInputs
    /\ args = [input |-> <<>>, fob |-> FALSE, custom |-> FALSE]
    /\ fs = CHOOSE f \in FileSystems(<<>>) : TRUE
    /\ fs0 = fs
    /\ run = 1
    /\ first = <<>>
    /\ oracle = NoOracle
    /\ pc = "no_run"
    /\ identifier = <<>>
    /\ prefix = <<>>
    /\ modeIdx = 1
    /\ child = "none"
    /\ passed = {}
    /\ created = {}
    /\ extractResults = <<>>
    /\ configLookups = <<>>
    /\ extractCalls = <<>>
    /\ genCalls = <<>>
    /\ genResults = <<>>
    /\ spawned = <<>>
    /\ banner = <<>>
    /\ exitCode = -1
    /\ reason = ""

DriverIdle ==
    UNCHANGED <<args, fs, pc, identifier, prefix, modeIdx, child, passed,
                created, extractResults, configLookups, extractCalls,
                genCalls, genResults, spawned, banner, exitCode, reason,
                run, first, fs0, oracle>>

\* The except clauses of lines 57-70.
Caught(exc) == exc \in {"CalledProcessError", "FileNotFoundError", "Exception"}

\* Lines 15-28: the two checks and the log lines between them.
RunnerPreCheck ==
    /\ runner.pc = "called"
    /\ LET pre == PreCheck(runner.scriptIsFile, runner.cwdGiven,
                           runner.cwdKind = "dir")
       IN  runner' =
             IF pre = "script_not_found"
             THEN [runner EXCEPT !.pre = pre, !.pc = "returned", !.ret = "False",
                                 !.log = @ \o <<"error">>]
             ELSE IF pre = "cwd_not_found"
             THEN [runner EXCEPT !.pre = pre, !.pc = "returned", !.ret = "False",
                                 !.log = @ \o <<"info", "info", "error">>]
             ELSE [runner EXCEPT !.pre = pre, !.pc = "launch",
                                 !.log = @ \o <<"info", "info">>
                                           \o (IF runner.cwdGiven
                                               THEN <<"info">> ELSE <<>>)]
    /\ DriverIdle

\* Lines 30-40 and 64-70: subprocess.run starts the child, or raises.
RunnerLaunch ==
    /\ runner.pc = "launch"
    /\ \E launch \in Launches :
         runner' =
           IF Starts(runner.pre, launch)
           THEN [runner EXCEPT !.launch = launch, !.pc = "wait",
                               !.child = TRUE, !.spawns = @ + 1]
           ELSE IF Caught(launch)
           THEN [runner EXCEPT !.launch = launch, !.raised = launch,
                               !.pc = "returned", !.ret = "False",
                               !.log = @ \o <<"error">>]
           ELSE [runner EXCEPT !.launch = launch, !.raised = launch,
                               !.pc = "raised"]
    /\ DriverIdle

\* Exceptions subprocess.run may raise once the child runs: none, or one
\* raised while its output is collected.
WaitFaults == {"", "Exception"}

\* Lines 32-63 and 68-70: the child ends with status rc, having written
\* (or not) to stdout and stderr; check=True turns a non-zero status into
\* CalledProcessError.
RunnerChildExits ==
    /\ runner.pc = "wait"
    /\ runner.child
    /\ \E rc \in ExitStatuses, out, err \in BOOLEAN, fault \in WaitFaults :
         LET exc == IF fault # "" THEN fault
                    ELSE IF Returned(rc) THEN "" ELSE "CalledProcessError"
         IN  /\ fault # "" => (rc = 1 /\ ~out /\ ~err)
             /\ runner' =
                  IF exc = ""
                  THEN [runner EXCEPT !.child = FALSE, !.rc = rc, !.stdout = out,
                                      !.stderr = err, !.pc = "returned",
                                      !.ret = "True",
                                      !.log = @ \o <<"info">>
                                                \o (IF err THEN <<"warning">>
                                                           ELSE <<>>)
                                                \o <<"info">>]
                  ELSE IF Caught(exc)
                  THEN [runner EXCEPT !.child = FALSE,
                                      !.rc = IF fault # "" THEN @ ELSE rc,
                                      !.stdout = out,
                                      !.stderr = err, !.raised = exc,
                                      !.pc = "returned", !.ret = "False",
                                      !.log = @ \o (IF exc = "CalledProcessError"
                                                    THEN <<"error", "error", "error">>
                                                    ELSE <<"error">>)]
                  ELSE [runner EXCEPT !.child = FALSE, !.raised = exc,
                                      !.pc = "raised"]
    /\ DriverIdle

NextRunner ==
    \/ RunnerPreCheck
    \/ RunnerLaunch
    \/ RunnerChildExits

\* One call of run_script.
SpecRunner == InitRunner /\ [][NextRunner]_vars

\* ------------------------------------------------------------ second runs
\* What a run that has ended was started with, did, and left behind.
RunRecord ==
    [ args |-> args,
      extractCalls |-> extractCalls,
      genCalls |-> genCalls,
      spawned |-> spawned,
      exitCode |-> exitCode,
      reason |-> reason,
      fs |-> fs ]

\* main() is entered anew after a run that has ended: the next state is a
\* start of run, the ended run kept in `first`.
Restarted ==
    /\ first' = <<RunRecord>>
    /\ run' = run + 1
    /\ pc' = "check_input"
    /\ identifier' = <<>>
    /\ prefix' = <<>>
    /\ modeIdx' = 1
    /\ child' = "none"
    /\ passed' = {}
    /\ created' = {}
    /\ extractResults' = <<>>
    /\ configLookups' = <<>>
    /\ extractCalls' = <<>>
    /\ genCalls' = <<>>
    /\ genResults' = <<>>
    /\ spawned' = <<>>
    /\ banner' = <<>>
    /\ exitCode' = -1
    /\ reason' = ""

\* The command is given again with other values of --fob and --custom
\* (lines 83-94), on the file system the first run started from and with
\* collaborators that do again what they did.
RerunWithOtherFlags ==
    /\ pc = "exit"
    /\ run = 1
    /\ \E f, c \in BOOLEAN :
         /\ <<f, c>> # <<args.fob, args.custom>>
         /\ args' = [args EXCEPT !.fob = f, !.custom = c]
    /\ fs' = fs0
    /\ Restarted
    /\ UNCHANGED <<fs0, oracle, runner>>

NextFlags ==
    \/ Next
    \/ RerunWithOtherFlags

\* Two runs of main() that differ in --fob and --custom only.
SpecFlags == InitOn(FileNames(MaxLenTwoRuns)) /\ [][NextFlags]_vars

\* The same command is given again on the file system the first run has
\* left; the collaborators, finding other files, may do otherwise.
RerunOnLeftovers ==
    /\ pc = "exit"
    /\ run = 1
    /\ Restarted
    /\ oracle' = NoOracle
    /\ UNCHANGED <<args, fs, fs0, runner>>

NextRerun ==
    \/ Next
    \/ RerunOnLeftovers

\* Two runs of main() on the same input, one after the other.
SpecRerun == InitOn(FileNames(MaxLenTwoRuns)) /\ [][NextRerun]_vars

\* ================================================================ claims
\* Helpers of the claims below; none of them is used by the model.
HasLetter(s) == \E i \in DOMAIN s : s[i] \in Letters
Exited == pc = "exit"

\* C1: for an input file whose name stem has no alphabetic character the
\* run ends with exit code 1 and, at the moment it exits, the Driver has
\* created none of <stem>/, <stem>/json_output, <stem>/invoice_output.
\* Stated for the runs that end at the Prefix check, where no mkdir call
\* has raised.
C1_NoLetterNoDirectory ==
    (Exited /\ fs.input /\ ~HasLetter(Stem(args.input))
        /\ reason # "FileExistsError")
        => (exitCode = 1 /\ created = {})

\* C2: if the extraction call reports failure, the run ends with exit code
\* 1 and no generation call is ever made.
C2_ExtractionFailureFatal ==
    (extractResults # <<>> /\ ~extractResults[1])
        => (Exited /\ exitCode = 1 /\ genCalls = <<>> /\ genResults = <<>>
            /\ Len(extractResults) = 1)

\* C2's case: the extraction child was started and exited non-zero.
C2_Witness ==
    /\ Exited
    /\ spawned = <<"create_json">>
    /\ extractResults = <<FALSE>>

\* C3: if the extraction call succeeded but json_output/<identifier>.json
\* does not exist afterwards, the run ends with exit code 1 at the
\* verification and no generation call is made; so a generation call is only
\* ever made with the file present.
C3_MissingJsonFatal ==
    /\ (extractResults = <<TRUE>> /\ ~fs.json_file)
          => /\ pc = "verify_json" \/ (Exited /\ exitCode = 1)
             /\ genCalls = <<>>
    /\ genCalls # <<>> => (extractResults = <<TRUE>> /\ fs.json_file)

\* C3's case: the child exited 0, wrote nothing, and the run has ended.
C3_Witness ==
    /\ Exited
    /\ extractResults = <<TRUE>>
    /\ ~fs.json_file
    /\ exitCode = 1

\* C4: if <prefix>_config.json is absent when it is checked, the run ends
\* with exit code 1 and no generation call is made; the check is made at
\* most once in a run, once in every run that makes a generation call or
\* completes, and before the first generation call.
C4_MissingConfigFatal ==
    /\ Len(configLookups) <= 1
    /\ (configLookups # <<>> /\ configLookups[1] \notin fs.configs)
          => (Exited /\ exitCode = 1 /\ genCalls = <<>>)
    /\ (genCalls # <<>> \/ exitCode = 0)
          => (Len(configLookups) = 1 /\ configLookups[1] \in fs.configs)

\* C4's case: the configuration file was looked up and found absent.
C4_Witness ==
    /\ Exited
    /\ configLookups # <<>>
    /\ configLookups[1] \notin fs.configs
    /\ fs.configs # {}

\* The flags of the three modes, in the order of the loop.
ModeFlags == << <<>>, <<"--fob">>, <<"--custom">> >>

\* C5: once the configuration check has passed, the generation script is
\* called for normal, fob, custom in that order whatever the earlier calls
\* returned, and the run ends with exit code 0 for every combination of
\* results.
C5_GenerationFailuresNotFatal ==
    /\ Len(genCalls) <= 3
    /\ Len(genResults) <= Len(genCalls)
    /\ \A i \in DOMAIN genCalls : genCalls[i].flags = ModeFlags[i]
    /\ (Exited /\ configLookups # <<>> /\ configLookups[1] \in fs.configs)
          => (exitCode = 0 /\ Len(genCalls) = 3 /\ Len(genResults) = 3)
    /\ genResults # <<>> => exitCode # 1

\* C5's case: only fob failed, and the run has ended.
C5_Witness ==
    /\ Exited
    /\ exitCode = 0
    /\ genResults = <<TRUE, FALSE, TRUE>>
    /\ Len(genCalls) = 3

\* C6: every run that reached the generation loop and has ended has logged
\* the banner, after the three calls, naming the three output files given
\* to them, whatever they returned; a run that ended with exit code 1 has
\* logged no banner.
C6_BannerAlwaysAfterLoop ==
    /\ (Exited /\ genCalls # <<>>) => banner # <<>>
    /\ exitCode = 0 => banner # <<>>
    /\ exitCode = 1 => banner = <<>>
    /\ banner # <<>> =>
          /\ Len(genResults) = 3
          /\ banner = <<genCalls[1].output.name, genCalls[2].output.name,
                        genCalls[3].output.name>>

\* C6's case: the banner was logged although every generation call failed.
C6_Witness ==
    /\ banner # <<>>
    /\ genResults = <<FALSE, FALSE, FALSE>>

\* The longest initial segment of s made only of letters.
LeadingLetters(s) ==
    LET n == CHOOSE k \in 0..Len(s) :
                /\ \A i \in 1..k : s[i] \in Letters
                /\ k < Len(s) => s[k + 1] \notin Letters
    IN  SubSeq(s, 1, n)

\* Whether main() has run its lines 123-130 to the end.
Derived == identifier # <<>>

\* C7: the Prefix the Driver derives, and the one it looks the
\* configuration file up with, is the leading alphabetic run of the
\* Identifier.
C7_PrefixIsLeadingRun ==
    /\ Derived => prefix = LeadingLetters(identifier)
    /\ configLookups # <<>> =>
          configLookups[1] = LeadingLetters(identifier) \o ConfigSuffix

\* Whether name is l letters, then d digits, a dot, and a suffix without a
\* dot, with l >= 1.
HasForm(name, l, d) ==
    /\ l >= 1
    /\ l + d + 1 < Len(name)
    /\ \A i \in 1..l : name[i] \in Letters
    /\ \A i \in (l + 1)..(l + d) : name[i] \in Digits
    /\ name[l + d + 1] = Dot
    /\ \A i \in (l + d + 2)..Len(name) : name[i] # Dot

\* C8: for an input file name <letters><digits>.<ext> the Identifier is
\* <letters><digits>, the Prefix is <letters>, and the configuration file
\* looked up is <letters>_config.json.
C8_LettersDigitsName ==
    \A l, d \in 0..Len(args.input) :
        (HasForm(args.input, l, d) /\ pc \notin {"check_input", "make_dirs", "derive"}
            /\ reason \notin {"input_not_found", "FileExistsError"})
          => /\ identifier = SubSeq(args.input, 1, l + d)
             /\ prefix = SubSeq(args.input, 1, l)
             /\ configLookups # <<>> =>
                   configLookups[1] = SubSeq(args.input, 1, l) \o ConfigSuffix

\* C8's case: the run of "J2.J" has looked up J_config.json.
C8_Witness ==
    /\ args.input = <<"J", "2", ".", "J">>
    /\ HasForm(args.input, 1, 1)
    /\ configLookups = << <<"J">> \o ConfigSuffix >>

AllAssetsPresent ==
    /\ fs.create_json_script
    /\ fs.invoice_gen_script
    /\ fs.template_dir
    /\ fs.config_dir

NoSubprocess == spawned = <<>> /\ child = "none"

\* C9: if one of the four fixed assets is missing when validated, the run
\* ends with exit code 1 and has spawned no process; and a process is only
\* ever spawned once the input-exists, non-empty-Prefix and asset checks
\* have passed.
C9_AssetsBeforeSubprocess ==
    /\ (~AllAssetsPresent /\ pc \notin {"check_input", "make_dirs", "derive", "validate"})
          => (Exited /\ exitCode = 1 /\ NoSubprocess /\ extractCalls = <<>>
              /\ genCalls = <<>>)
    /\ ~NoSubprocess =>
          /\ fs.input
          /\ HasLetter(Stem(args.input))
          /\ AllAssetsPresent
          /\ {"input", "prefix"} \cup Assets \subseteq passed

\* C9's case: only the template directory is missing, and the run has
\* ended at the validation.
C9_Witness ==
    /\ Exited
    /\ reason = "template_dir"
    /\ fs.create_json_script /\ fs.invoice_gen_script /\ fs.config_dir
    /\ ~fs.template_dir

\* C10: each generation call is given json_output/<identifier>.json, which
\* exists, the output path invoice_output/"CT&INV&PL <identifier> <M>.xlsx"
\* with <M> the capitalised mode, the template and configuration
\* directories, and exactly the flag of its mode; no call carries both
\* flags and the output paths are pairwise distinct.
C10_GenerationArguments ==
    LET id == Stem(args.input)
        upper == <<NormalUpper, FobUpper, CustomUpper>>
    IN  /\ \A i \in DOMAIN genCalls :
              /\ genCalls[i].json =
                    [dir |-> [root |-> id, dir |-> "json_output"],
                     name |-> id \o JsonSuffix]
              /\ fs.json_file
              /\ genCalls[i].output =
                    [dir |-> [root |-> id, dir |-> "invoice_output"],
                     name |-> OutputTag \o Space \o id \o Space
                              \o upper[i] \o XlsxSuffix]
              /\ genCalls[i].templatedir = "invoice_gen/TEMPLATE"
              /\ genCalls[i].configdir = "invoice_gen/config"
              /\ genCalls[i].flags = ModeFlags[i]
              /\ Len(genCalls[i].flags) <= 1
        /\ \A i, j \in DOMAIN genCalls :
              i # j => genCalls[i].output # genCalls[j].output

\* C10's case: the three generation calls have been made.
C10_Witness ==
    /\ Len(genCalls) = 3
    /\ Exited


\* The second run has ended.
SecondRunEnded == run = 2 /\ Exited

RunnerBadInput ==
    \/ ~runner.scriptIsFile
    \/ runner.cwdGiven /\ runner.cwdKind # "dir"

\* C12: run_script starts no process and returns False when the script
\* path is not a file, and when a working directory is given that is not a
\* directory; a process is started only after both checks have passed.
C12_NoSpawnOnFailedPrecheck ==
    /\ RunnerBadInput =>
          /\ runner.pc \in {"called", "returned"}
          /\ runner.spawns = 0
          /\ ~runner.child
          /\ runner.pc = "returned" => runner.ret = "False"
    /\ (runner.child \/ runner.spawns > 0) =>
          /\ runner.pre = "ok"
          /\ runner.scriptIsFile
          /\ runner.cwdGiven => runner.cwdKind = "dir"

\* C12's case: the script is a file, the working directory given is a
\* file, and run_script has returned.
C12_Witness ==
    /\ runner.pc = "returned"
    /\ runner.scriptIsFile
    /\ runner.cwdGiven
    /\ runner.cwdKind = "file"
    /\ runner.ret = "False"
    /\ runner.spawns = 0

\* C13: once the checks have passed, run_script raises nothing and returns
\* a boolean: True exactly when the child was started and ended with
\* status 0 (whatever it wrote to stderr), False on a non-zero status, on
\* a failure to start the child and on any other exception.
C13_ReturnsBoolean ==
    /\ runner.pc # "raised"
    /\ (runner.pc = "returned" /\ runner.pre = "ok") =>
          /\ runner.ret \in {"True", "False"}
          /\ runner.ret = "True" <=>
                (runner.launch = "started" /\ runner.rc = 0 /\ runner.raised = "")
          /\ runner.launch # "started" => runner.ret = "False"
          /\ runner.rc = 1 => runner.ret = "False"
          /\ runner.raised # "" => runner.ret = "False"
          /\ runner.ret = "True" => runner.log[Len(runner.log)] = "info"
          /\ runner.ret = "False" => runner.log[Len(runner.log)] = "error"

\* C13's case: the child ended with status 0 after writing to stderr, and
\* run_script returned True.
C13_Witness ==
    /\ runner.pc = "returned"
    /\ runner.rc = 0
    /\ runner.stderr
    /\ runner.ret = "True"
    /\ "warning" \in {runner.log[i] : i \in DOMAIN runner.log}


\* How far the run has come: the statements of main() in program order,
\* the loop's iterations counted by modeIdx.
Position ==
    CASE pc = "check_input" -> 1
      [] pc = "make_dirs" -> 2
      [] pc = "derive" -> 3
      [] pc = "validate" -> 4
      [] pc = "extract" -> 5
      [] pc = "extract_wait" -> 6
      [] pc = "verify_json" -> 7
      [] pc = "check_config" -> 8
      [] pc = "generate" -> 7 + 2 * modeIdx
      [] pc = "generate_wait" -> 8 + 2 * modeIdx
      [] pc = "banner" -> 15
      [] pc = "exit" -> 16

\* The number of processes started for `script` so far.
Spawns(script) == Cardinality({i \in DOMAIN spawned : spawned[i] = script})

\* At most one child runs, and only while run_script waits for it; a call
\* is made only when no child runs; extraction is called and started at
\* most once, generation at most once per mode.
OneChildOneAttempt ==
    /\ child # "none" =>
          \/ pc = "extract_wait" /\ child = "create_json"
          \/ pc = "generate_wait" /\ child = "invoice_gen"
    /\ pc \in {"extract", "generate"} => child = "none"
    /\ Len(spawned) <= 4
    /\ Spawns("create_json") <= 1
    /\ Spawns("invoice_gen") <= 3
    /\ Len(extractCalls) <= 1
    /\ Len(extractResults) <= 1
    /\ Len(genCalls) <= 3
    /\ Len(genResults) <= Len(genCalls)
    /\ \A i, j \in DOMAIN genCalls : i # j => genCalls[i] # genCalls[j]
    /\ \A i \in DOMAIN genCalls : genCalls[i].flags = Modes[i].flags
    /\ Len(spawned) <= Len(extractCalls) + Len(genCalls)

\* C14: at most one child process runs at any time; extraction is started
\* at most once and generation at most once per mode (four processes at
\* most); no call is retried after a failure and every step moves the run
\* forward in program order, so no stage is entered twice.
C14_OneChildNoRetry ==
    /\ []OneChildOneAttempt
    /\ [][Position' > Position]_vars

\* C14's case: a run has ended after four processes, one for extraction
\* and one per mode, the second generation having failed.
C14_Witness ==
    /\ Exited
    /\ Len(spawned) = 4
    /\ Len(genResults) = 3
    /\ ~genResults[2]
    /\ genResults[3]


\* The three output directories of file system f.
OutputDirs(f) == <<f.out, f.json_dir, f.inv_dir>>

\* The first run got through the creation step.
FirstRunMadeDirs ==
    /\ run = 2
    /\ first[1].reason \notin {"input_not_found", "FileExistsError"}

\* C15: when the Driver runs again on the same input, the directories of
\* the first run present, the creation step raises nothing and creates
\* nothing, and the three directories stay as the first run left them.
C15_MkdirIdempotent ==
    FirstRunMadeDirs =>
       /\ OutputDirs(first[1].fs) = <<"dir", "dir", "dir">>
       /\ OutputDirs(fs) = OutputDirs(first[1].fs)
       /\ reason # "FileExistsError"
       /\ created = {}

\* C15's case: the first run created the three directories, and the second
\* run is past the creation step.
C15_Witness ==
    /\ FirstRunMadeDirs
    /\ OutputDirs(fs0) = <<"none", "none", "none">>
    /\ pc = "derive"


\* C16: there is no timeout.  If every child that was started ends, the
\* run ends, with exit code 0 or 1; and while a child runs the Driver is
\* in the call that started it, has not exited, and takes no step but the
\* one in which that child ends.
C16_NoTimeout ==
    /\ <>(Exited /\ exitCode \in {0, 1})
    /\ [](child # "none" => (~Exited /\ exitCode = -1))
    /\ [][child # "none" => (child' = "none" /\ Len(spawned') = Len(spawned))]_vars

\* C16's case: four children were started, each has ended, and the run has
\* ended with exit code 0.
C16_Witness ==
    /\ Exited
    /\ exitCode = 0
    /\ child = "none"
    /\ Len(spawned) = 4
    /\ genResults = <<TRUE, TRUE, TRUE>>


\* A run whose input, Prefix and fixed assets are valid, whose output
\* directories could be created, and whose <Prefix>_config.json is missing.
ConfigMissingRun ==
    /\ fs.input
    /\ HasLetter(Stem(args.input))
    /\ AllAssetsPresent
    /\ reason # "FileExistsError"
    /\ ConfigFileName(Prefix(Identifier(args.input))) \notin fs.configs

\* C17: the configuration file is looked up only after extraction has
\* succeeded and its JSON file was found.  So a run whose configuration
\* file is missing, all else valid, calls extraction exactly once, never
\* calls generation and ends with exit code 1; and the JSON file, once
\* written, stays on disk.
C17_ConfigCheckedAfterExtraction ==
    /\ [](configLookups # <<>> =>
             (extractCalls = <<CreateJsonCall>> /\ extractResults = <<TRUE>>
              /\ fs.json_file))
    /\ []((ConfigMissingRun /\ Exited) =>
             (Len(extractCalls) = 1 /\ exitCode = 1 /\ genCalls = <<>>))
    /\ []((ConfigMissingRun /\ Exited /\ extractResults = <<TRUE>> /\ fs.json_file) =>
             reason = "config_not_found")
    /\ [][fs.json_file => fs'.json_file]_vars

\* C17's case: extraction wrote the JSON file, the configuration file was
\* then found missing, and the run has ended with the JSON file on disk.
C17_Witness ==
    /\ ConfigMissingRun
    /\ Exited
    /\ reason = "config_not_found"
    /\ ~fs0.json_file
    /\ fs.json_file
    /\ Len(spawned) = 1

==========================================================================
